---- MODULE Spec2Model ----
(***************************************************************************)
(* Model of glitchy-span (src/src/glitchy.ts): the hover animation driver  *)
(* (setupAnimation / animateScene), the text rasterizer (writeText), the   *)
(* texture swap (updateMesh) and the fragment shader (FRAGMENT_SHADER).    *)
(*                                                                         *)
(* Units: time in milliseconds; canvas alpha and coverage in 8 bits.       *)
(* Numbers of the intensity computation are binary floating-point values   *)
(* with a significand of MantBits bits (53 in a JavaScript double), held    *)
(* as integer multiples of 2^-MantBits: One is 1.0. Math.random() may       *)
(* return any such value in [0, 1) (ECMAScript leaves the algorithm to the  *)
(* implementation), and the sum Math.random() + 1 is rounded to the        *)
(* nearest representable value, ties to even, as IEEE 754 does.             *)
(* A frame callback is modelled as one atomic step that reads              *)
(* performance.now() once.                                                 *)
(***************************************************************************)
EXTENDS Integers, Sequences, FiniteSets

\* ---- program constants ----
StepMs == 50                   \* hoverDuration >= 50
RampFrames == 5                \* frames < 5
MaxFrames == 7                 \* frames < 7
Bands == 8                     \* floor(uv.y * 8.0)

\* ---- bounds of the model ----
TickMs == 25                   \* granularity of the wall clock
MaxGap == 75                   \* longest modelled interval between two frames
MaxTextures == 3               \* texture objects created after construction
UvDen == 16                    \* uv.y is drawn from 0/16 .. 16/16
MantBits == 3                  \* bits of the floating-point significand

RECURSIVE Pow2(_)
Pow2(n) == IF n = 0 THEN 1 ELSE 2 * Pow2(n - 1)

One == Pow2(MantBits)                    \* 1.0
glitchIntensityMod == One \div 2         \* ANIMATION_CONFIG.glitchIntensityMod = 0.5

\* ---- input sets ----
RandomValues == 0..(One - 1)             \* Math.random() in [0, 1)
Styles == {"black", "red"}               \* computed colour of the text element
Coverage == <<0, 128, 255>>              \* glyph coverage of the canvas pixels
Intensities == {0, One \div 2, One}      \* uniform values fed to the shader
Channel == {0, 1}
Vec4 == [r : Channel, g : Channel, b : Channel, a : Channel]

Min(a, b) == IF a < b THEN a ELSE b

VARIABLES
    isHovered,        \* setupAnimation: let isHovered
    frames,           \* setupAnimation: let frames
    hoverDuration,    \* setupAnimation: let hoverDuration
    sinceLastFrame,   \* performance.now() - lastFrame
    glitchIntensity,  \* shaderUniforms.glitchIntensity.value
    tDiffuse,         \* shaderUniforms.tDiffuse.value (identity of the texture object)
    textures,         \* number of CanvasTexture objects created so far
    textCanvas,       \* pixels of the 2D canvas
    fillStyle,        \* context.fillStyle
    pendingFrames,    \* callbacks queued by requestAnimationFrame
    last,             \* observer: what the last handler did
    sinceUpdate,      \* observer: ms since the frame step last set the intensity (saturates at StepMs)
    sinceOver,        \* observer: ms since the mouseover that began the hover cycle (saturates at StepMs)
    scenario,         \* observer: "initial", "clean" (one mouseover, frames >= 50 ms apart), "broken"
    pulses,           \* observer: nonzero intensity updates of the current hover cycle
    gl                \* fragment shader invocation: inputs and gl_FragColor

vars == <<isHovered, frames, hoverDuration, sinceLastFrame, glitchIntensity,
          tDiffuse, textures, textCanvas, fillStyle, pendingFrames,
          last, sinceUpdate, sinceOver, scenario, pulses, gl>>

widgetVars == <<isHovered, frames, hoverDuration, sinceLastFrame, glitchIntensity,
                tDiffuse, textures, textCanvas, fillStyle, pendingFrames,
                last, sinceUpdate, sinceOver, scenario, pulses>>

\* ---- text rasterizer ----
BlankPixel == [a |-> 0, col |-> "none"]
BlankCanvas == [i \in 1..Len(Coverage) |-> BlankPixel]

\* source-over compositing of one pixel of the glyph (coverage c, colour s)
Composite(dst, c, s) ==
    IF c = 0 THEN dst
    ELSE [a   |-> c + ((dst.a * (255 - c) + 127) \div 255),
          col |-> IF dst.a = 0 \/ c = 255 \/ dst.col = s THEN s ELSE "mix"]

\* context.fillText(text, width / 2, height / 2) with fillStyle s
fillText(canvas, s) ==
    [i \in 1..Len(Coverage) |-> Composite(canvas[i], Coverage[i], s)]

\* writeText(textCanvas, textElement, text); s is getComputedStyle(textElement).color
writeText(canvas, s) == fillText(canvas, s)

\* ---- animation driver helpers ----
\* mouseover listener of setupAnimation: if (!isHovered) frames = 0
MouseOverFramesAlways(h, f) == 0

MouseOverFrames(h, f) == IF ~h THEN 0 ELSE f

\* x + 1 for x in [0, 1): the sum lies in [1, 2], where representable values are
\* the even multiples of 2^-MantBits; an odd sum is a tie and goes to the
\* neighbour with an even significand
PlusOne(x) ==
    LET sum == x + One IN
    IF sum % 2 = 0 THEN sum
    ELSE IF (sum - 1) % 4 = 0 THEN sum - 1 ELSE sum + 1

\* x * glitchIntensityMod (exact: a multiplication by 0.5)
TimesMod(x) == (x * glitchIntensityMod) \div One

\* frames < 5 ? (Math.random() + 1) * glitchIntensityMod : 0, after frames++
NextIntensityOffRange(f, r) ==
    IF f < RampFrames THEN TimesMod(r) ELSE 0

NextIntensity(f, r) ==
    IF f < RampFrames THEN TimesMod(PlusOne(r)) ELSE 0

\* isHovered && frames < 7
StepEnabledLoose(h, f) == h /\ f < MaxFrames + 1

StepEnabled(h, f) == h /\ f < MaxFrames

\* hoverDuration >= 50
StepDue(hd) == hd >= StepMs

\* ---- fragment shader ----
\* float segment = floor(uv.y * 8.0), uv.y = y / UvDen
Segment(y) == (y * Bands) \div UvDen

FragmentMainSwapped(intensity, segment, redGlitch, greenGlitch, baseState) ==
    LET blueGlitch == baseState
        m == segment % 3
    IN  IF intensity <= 0 THEN baseState
        ELSE IF m = 0 THEN
            [r |-> redGlitch.r, g |-> greenGlitch.g, b |-> baseState.b,
             a |-> redGlitch.a + greenGlitch.a]
        ELSE IF m = 1 THEN
            [r |-> redGlitch.r, g |-> baseState.g, b |-> blueGlitch.b,
             a |-> redGlitch.a + baseState.a]
        ELSE
            [r |-> baseState.r, g |-> greenGlitch.g, b |-> blueGlitch.b,
             a |-> baseState.a + greenGlitch.a]

\* void main(): redGlitch is the +offset sample, greenGlitch the -offset sample,
\* baseState and blueGlitch are both the sample at uv
FragmentMain(intensity, segment, redGlitch, greenGlitch, baseState) ==
    LET blueGlitch == baseState
        m == segment % 3
    IN  IF intensity <= 0 THEN baseState
        ELSE IF m = 0 THEN
            [r |-> redGlitch.r, g |-> greenGlitch.g, b |-> baseState.b,
             a |-> redGlitch.a + greenGlitch.a]
        ELSE IF m = 1 THEN
            [r |-> baseState.r, g |-> greenGlitch.g, b |-> blueGlitch.b,
             a |-> baseState.a + greenGlitch.a]
        ELSE
            [r |-> redGlitch.r, g |-> baseState.g, b |-> blueGlitch.b,
             a |-> redGlitch.a + baseState.a]

ZeroVec == [r |-> 0, g |-> 0, b |-> 0, a |-> 0]
GlIdle == [ran |-> FALSE, intensity |-> 0, segment |-> 0, plus |-> ZeroVec,
           minus |-> ZeroVec, base |-> ZeroVec, fragColor |-> ZeroVec]

\* ---- the program's state ----
TypeOK ==
    /\ isHovered \in BOOLEAN
    /\ frames \in Nat
    /\ hoverDuration \in Nat
    /\ sinceLastFrame \in Nat
    /\ glitchIntensity \in 0..One
    /\ tDiffuse \in 0..(textures - 1)
    /\ textures \in Nat
    /\ DOMAIN textCanvas = 1..Len(Coverage)
    /\ fillStyle \in Styles
    /\ pendingFrames \in Nat

\* ---- initial state: the state after the GlitchySpan constructor ----
Handled(ev, rendered, requested, wrote, updated) ==
    [ev |-> ev, rendered |-> rendered, requested |-> requested,
     wrote |-> wrote, updated |-> updated]

Init ==
    /\ isHovered = FALSE
    /\ frames = 0
    /\ hoverDuration = 0
    /\ sinceLastFrame = 0
    /\ glitchIntensity = 0
    /\ tDiffuse = 0
    /\ textures = 1
    /\ \E s \in Styles :
          /\ fillStyle = s
          /\ textCanvas = writeText(BlankCanvas, s)
    /\ pendingFrames = 1
    /\ last = Handled("construct", 1, 1, 1, FALSE)
    /\ sinceUpdate = 0
    /\ sinceOver = 0
    /\ scenario = "initial"
    /\ pulses = 0
    /\ gl = GlIdle

\* ---- wall clock ----
Tick ==
    /\ sinceLastFrame + TickMs <= MaxGap
    /\ sinceLastFrame' = sinceLastFrame + TickMs
    /\ sinceUpdate' = Min(sinceUpdate + TickMs, StepMs)
    /\ sinceOver' = Min(sinceOver + TickMs, StepMs)
    /\ last' = Handled("tick", 0, 0, 0, FALSE)
    /\ UNCHANGED <<isHovered, frames, hoverDuration, glitchIntensity, tDiffuse,
                   textures, textCanvas, fillStyle, pendingFrames, scenario,
                   pulses, gl>>

\* ---- texture swap ----
\* updateMesh: material.uniforms.tDiffuse.value = new THREE.CanvasTexture(texture)
updateMeshInPlace ==
    /\ tDiffuse' = tDiffuse
    /\ textures' = textures + 1

updateMesh ==
    /\ tDiffuse' = textures
    /\ textures' = textures + 1

\* the constructor's listener body: writeText(...); updateMesh(...)
Redraw ==
    /\ textures <= MaxTextures
    /\ \E s \in Styles :
          /\ fillStyle' = s
          /\ textCanvas' = writeText(textCanvas, s)
    /\ updateMesh

\* ---- mouse events ----
\* mouseover: the listener of setupAnimation, then the listener of the constructor
MouseOverStartsDriver ==
    /\ frames' = MouseOverFrames(isHovered, frames)
    /\ isHovered' = TRUE
    /\ Redraw
    /\ pendingFrames' = pendingFrames + 1
    /\ last' = Handled("mouseover", 0, 0, 1, FALSE)
    /\ sinceOver' = IF isHovered THEN sinceOver ELSE 0
    /\ pulses' = IF isHovered THEN pulses ELSE 0
    /\ scenario' = IF scenario = "initial" THEN "clean" ELSE "broken"
    /\ UNCHANGED <<hoverDuration, sinceLastFrame, glitchIntensity, sinceUpdate, gl>>

MouseOver ==
    /\ frames' = MouseOverFrames(isHovered, frames)
    /\ isHovered' = TRUE
    /\ Redraw
    /\ last' = Handled("mouseover", 0, 0, 1, FALSE)
    /\ sinceOver' = IF isHovered THEN sinceOver ELSE 0
    /\ pulses' = IF isHovered THEN pulses ELSE 0
    /\ scenario' = IF scenario = "initial" THEN "clean" ELSE "broken"
    /\ UNCHANGED <<hoverDuration, sinceLastFrame, glitchIntensity, pendingFrames,
                   sinceUpdate, gl>>

\* mouseout: isHovered = false; updateIntensity(0)
MouseOutKeepsIntensity ==
    /\ isHovered' = FALSE
    /\ last' = Handled("mouseout", 0, 0, 0, FALSE)
    /\ scenario' = "broken"
    /\ UNCHANGED <<frames, hoverDuration, sinceLastFrame, glitchIntensity, tDiffuse,
                   textures, textCanvas, fillStyle, pendingFrames, sinceUpdate,
                   sinceOver, pulses, gl>>

MouseOut ==
    /\ isHovered' = FALSE
    /\ glitchIntensity' = 0
    /\ last' = Handled("mouseout", 0, 0, 0, FALSE)
    /\ scenario' = "broken"
    /\ UNCHANGED <<frames, hoverDuration, sinceLastFrame, tDiffuse, textures,
                   textCanvas, fillStyle, pendingFrames, sinceUpdate, sinceOver,
                   pulses, gl>>

\* mouseleave: only the constructor listens to it
MouseLeave ==
    /\ Redraw
    /\ last' = Handled("mouseleave", 0, 0, 1, FALSE)
    /\ scenario' = "broken"
    /\ UNCHANGED <<isHovered, frames, hoverDuration, sinceLastFrame, glitchIntensity,
                   pendingFrames, sinceUpdate, sinceOver, pulses, gl>>

\* ---- frame callback ----
\* the hovered branch of animateScene, d = performance.now() - lastFrame
FrameStep(d) ==
    LET hd == hoverDuration + d IN
    IF StepDue(hd)
    THEN /\ frames' = frames + 1
         /\ hoverDuration' = 0
         /\ \E r \in RandomValues :
               glitchIntensity' = NextIntensity(frames + 1, r)
         /\ pulses' = IF glitchIntensity' # 0 THEN pulses + 1 ELSE pulses
         /\ sinceUpdate' = 0
         /\ last' = Handled("frame", 1, 1, 0, TRUE)
    ELSE /\ hoverDuration' = hd
         /\ last' = Handled("frame", 1, 1, 0, FALSE)
         /\ UNCHANGED <<frames, glitchIntensity, pulses, sinceUpdate>>

\* animateScene, run from the requestAnimationFrame queue
animateScene ==
    /\ pendingFrames > 0
    /\ pendingFrames' = (pendingFrames - 1) + 1
    /\ IF StepEnabled(isHovered, frames)
       THEN FrameStep(sinceLastFrame)
       ELSE /\ last' = Handled("frame", 1, 1, 0, FALSE)
            /\ UNCHANGED <<frames, hoverDuration, glitchIntensity, pulses, sinceUpdate>>
    /\ sinceLastFrame' = 0
    /\ scenario' = IF scenario = "clean" /\ sinceLastFrame < StepMs
                   THEN "broken" ELSE scenario
    /\ UNCHANGED <<isHovered, tDiffuse, textures, textCanvas, fillStyle, sinceOver, gl>>

Next ==
    \/ Tick
    \/ MouseOver
    \/ MouseOut
    \/ MouseLeave
    \/ animateScene

Spec == Init /\ [][Next]_vars

\* ---- the fragment shader run on one fragment ----
\* the uniform, the varying and the three texture samples of one fragment
ShaderInit ==
    /\ isHovered = FALSE
    /\ frames = 0
    /\ hoverDuration = 0
    /\ sinceLastFrame = 0
    /\ glitchIntensity = 0
    /\ tDiffuse = 0
    /\ textures = 1
    /\ fillStyle = "black"
    /\ textCanvas = writeText(BlankCanvas, "black")
    /\ pendingFrames = 1
    /\ last = Handled("construct", 1, 1, 1, FALSE)
    /\ sinceUpdate = 0
    /\ sinceOver = 0
    /\ scenario = "initial"
    /\ pulses = 0
    /\ \E i \in Intensities, y \in 0..UvDen, p \in Vec4, n \in Vec4, b \in Vec4 :
          gl = [ran |-> FALSE, intensity |-> i, segment |-> Segment(y),
                plus |-> p, minus |-> n, base |-> b, fragColor |-> ZeroVec]

RunFragment ==
    /\ ~gl.ran
    /\ gl' = [gl EXCEPT !.ran = TRUE,
                        !.fragColor = FragmentMain(gl.intensity, gl.segment,
                                                   gl.plus, gl.minus, gl.base)]
    /\ UNCHANGED widgetVars

ShaderNext == RunFragment

ShaderSpec == ShaderInit /\ [][ShaderNext]_vars

\* ---- properties ----

\* C1: in the scenario of one mouseover from the initial state followed only by
\* frames at least 50 ms apart, the frame step has made min(frames, 5) nonzero
\* updates, each in [0.5, 1.0], and the intensity is 0 after the fifth.
C1_HoverCycleFivePulses ==
    scenario = "clean" =>
        /\ pulses = Min(frames, RampFrames)
        /\ (frames > RampFrames => glitchIntensity = 0)
        /\ (glitchIntensity # 0 =>
              glitchIntensity >= glitchIntensityMod /\ glitchIntensity <= One)

\* C2 (as stated): a mouseover handled while isHovered is already true resets
\* frames to 0.
C2_ReentrantResets ==
    [][(last'.ev = "mouseover" /\ isHovered) => frames' = 0]_vars

\* C2 (amended): a mouseover handled while isHovered is already true leaves
\* frames unchanged, whatever its value; a mouseover handled while isHovered is
\* false sets frames to 0.
C2_ReentrantKeeps ==
    [][last'.ev = "mouseover" => frames' = (IF isHovered THEN frames ELSE 0)]_vars

C2_Witness == last.ev = "mouseover" /\ isHovered /\ frames = 3

\* C3: a mouseout sets isHovered to false and glitchIntensity to 0 in the same
\* step, and from a not-hovered state with intensity 0 every step other than a
\* mouseover leaves the widget not hovered with intensity 0.
C3_MouseOutForcesZero ==
    [][/\ (last'.ev = "mouseout" => ~isHovered' /\ glitchIntensity' = 0)
       /\ ((~isHovered /\ glitchIntensity = 0 /\ last'.ev # "mouseover")
              => (~isHovered' /\ glitchIntensity' = 0))]_vars

C3_Witness ==
    last.ev = "frame" /\ ~isHovered /\ frames = 2 /\ glitchIntensity = 0

\* C4: a writeText with the same style as the previous writeText leaves every
\* pixel of the canvas as the previous call left it.
C4_RasterizeIdempotent ==
    [][(last'.wrote = 1 /\ fillStyle' = fillStyle) => textCanvas' = textCanvas]_vars

\* C5: exactly one frame callback is pending in every state; every frame callback
\* requests one frame and renders once; no mouse handler requests a frame or
\* renders.
C5_SingleRenderLoop ==
    /\ pendingFrames = 1
    /\ (last.ev = "frame" => last.rendered = 1 /\ last.requested = 1)
    /\ (last.ev \in {"mouseover", "mouseout", "mouseleave"}
          => last.rendered = 0 /\ last.requested = 0)

C5_Witness ==
    last.ev = "mouseover" /\ frames = MaxFrames /\ pendingFrames = 1

\* the reference function of the specification, section 4.2
ShaderReference(intensity, segment, plus, minus, unshifted) ==
    IF intensity <= 0 THEN unshifted
    ELSE CASE segment % 3 = 0 ->
                [r |-> plus.r, g |-> minus.g, b |-> unshifted.b,
                 a |-> plus.a + minus.a]
           [] segment % 3 = 1 ->
                [r |-> unshifted.r, g |-> minus.g, b |-> unshifted.b,
                 a |-> unshifted.a + minus.a]
           [] segment % 3 = 2 ->
                [r |-> plus.r, g |-> unshifted.g, b |-> unshifted.b,
                 a |-> plus.a + unshifted.a]

\* C6: gl_FragColor equals the reference function of the intensity, the segment
\* and the three samples, for every segment in 0..8.
C6_ShaderMatchesReference ==
    gl.ran => /\ gl.segment \in 0..Bands
              /\ gl.fragColor = ShaderReference(gl.intensity, gl.segment,
                                                gl.plus, gl.minus, gl.base)

C6_Witness ==
    /\ gl.ran /\ gl.intensity > 0 /\ gl.segment = 7
    /\ gl.plus.r # gl.base.r /\ gl.minus.g # gl.base.g
    /\ gl.fragColor.a = 2

\* C7 (as stated): not hovered implies frames = 0, hovered implies 0 <= frames < 7.
C7_ThreeStates ==
    /\ (~isHovered => frames = 0)
    /\ (isHovered => 0 <= frames /\ frames < MaxFrames)

\* C7 (amended): 0 <= frames <= 7 whether hovered or not; frames changes only by
\* a frame step while hovered with frames < 7 (by one) and by a mouseover handled
\* while not hovered (to 0), so a mouseout keeps the count.
C7_FrameCountStates ==
    /\ [](frames \in 0..MaxFrames)
    /\ [][frames' # frames =>
            \/ last'.ev = "frame" /\ isHovered /\ frames < MaxFrames
                  /\ frames' = frames + 1
            \/ last'.ev = "mouseover" /\ ~isHovered /\ frames' = 0]_vars

C7_Witness == last.ev = "mouseout" /\ ~isHovered /\ frames = 3

\* C8: the frame step sets the intensity only when at least 50 ms have elapsed
\* since the later of its previous update and the mouseover that began the
\* hover cycle.
C8_StepAfterFiftyMs ==
    [][last'.updated => Min(sinceUpdate, sinceOver) >= StepMs]_vars

\* C9: a mouseover and a mouseleave each redraw the text and install a texture
\* object that did not exist before; a mouseleave leaves the animation state and
\* the intensity unchanged; a mouseout and a frame leave the texture unchanged.
C9_TextureRefreshIndependent ==
    [][/\ (last'.ev \in {"mouseover", "mouseleave"}
            => /\ last'.wrote = 1
               /\ tDiffuse' # tDiffuse
               /\ tDiffuse' \notin 0..(textures - 1))
       /\ (last'.ev = "mouseleave"
            => UNCHANGED <<isHovered, frames, hoverDuration, glitchIntensity>>)
       /\ (last'.ev \in {"mouseout", "frame"} => tDiffuse' = tDiffuse)]_vars

C9_Witness ==
    /\ last.ev = "mouseleave" /\ isHovered /\ frames = 2
    /\ glitchIntensity # 0 /\ hoverDuration > 0 /\ tDiffuse = 2

\* C10 (as stated): 0 <= frames <= 7, the intensity is 0 or in [0.5, 1.0), and
\* it is nonzero only while hovered with 1 <= frames <= 4.
C10_IntensityHalfOpen ==
    /\ frames \in 0..MaxFrames
    /\ (glitchIntensity = 0
          \/ (glitchIntensity >= glitchIntensityMod /\ glitchIntensity < One))
    /\ (glitchIntensity # 0 => isHovered /\ frames \in 1..(RampFrames - 1))

\* C10 (amended): 0 <= frames <= 7, the intensity is 0 or in [0.5, 1.0] (1.0
\* included), and it is nonzero only while hovered with 1 <= frames <= 4.
C10_IntensityInvariant ==
    /\ frames \in 0..MaxFrames
    /\ (glitchIntensity = 0
          \/ (glitchIntensity >= glitchIntensityMod /\ glitchIntensity <= One))
    /\ (glitchIntensity # 0 => isHovered /\ frames \in 1..(RampFrames - 1))

C10_Witness == isHovered /\ frames = RampFrames - 1 /\ glitchIntensity = One
====
